---------------------------- MODULE Spec2Model ----------------------------
(***************************************************************************)
(* docuMind: the Express API of api/index.js (collection bootstrap, the    *)
(* three ingestion endpoints, the chat endpoint) over one Qdrant           *)
(* collection, and the citation rendering of ChatInterface.jsx.            *)
(*                                                                         *)
(* Every `await` of a handler that reaches the vector store is one step of *)
(* the handler's process; work that touches no shared state (validation,   *)
(* document loading) is part of the step it precedes.  The Qdrant client   *)
(* is modelled by the requests it sends: fromExistingCollection is one     *)
(* lookup, fromDocuments is embed, lookup, create-if-missing, upsert.      *)
(***************************************************************************)
EXTENDS Integers, Sequences, FiniteSets, TLC

VARIABLES
    collExists,   \* the configured collection exists in the vector store
    points,       \* the collection's payloads, in insertion order
    created,      \* number of physical collection creations so far
    faults,       \* infrastructure failures injected so far
    req,          \* per process: the handler's local state
    draft,        \* the answer text being produced, by its parts
    message,      \* the chat message handed to the message list
    rendered,     \* what the message card shows for it
    ui            \* the React state of ChatInterface and of DocumentInput,
                  \* with the requests they have in flight

server == <<collExists, points, created, faults, req>>
chat == <<draft, message, rendered, ui>>
vars == <<server, chat>>

\* ------------------------------------------------------------------ bounds

MaxFaults == 1
MaxPages == 2
MaxBodyFrags == 2
MaxSubmits == 2
MaxRecordings == 2
MaxIngestSubmits == 3
\* k of vectorStore.asRetriever({ k: 5 })
RetrieverK == 5

\* ------------------------------------------------------------------ processes

\* b1, b2: invocations of ensureQdrantCollection; r1, r2: HTTP requests
Boot == {"b1", "b2"}
Req == {"r1", "r2"}
Procs == Boot \cup Req

\* ------------------------------------------------------------------ texts

\* Text is a sequence of characters; these are the sample payload texts.
EmptyText == << >>
BlankText == <<" ">>
SomeText == <<"h", "i">>
Texts == {EmptyText, BlankText, SomeText}

IsWhitespace(c) == c \in {" ", "\n", "\t"}

\* String.prototype.trim() leaves nothing
IsBlank(t) == \A i \in 1..Len(t) : IsWhitespace(t[i])

\* JavaScript truthiness of a string: only the empty string (or a missing
\* field, modelled as the empty string) is falsy
Truthy(t) == t # EmptyText


\* ------------------------------------------------------------------ documents

\* metadata.source values are token sequences ("/" is its own token)
UserInputSource == <<"user-input">>
InitSource == <<"initialization">>

\* pageContent: "DocuMind initialization document"
InitText == <<"D", "o", "c", "u", "M", "i", "n", "d">>

\* A langchain Document: pageContent plus the metadata the handlers set.
\* page = 0 and type = "" stand for an absent key; by is the writing process.
Document(content, source, page, type, by) ==
    [pageContent |-> content, source |-> source, page |-> page,
     type |-> type, by |-> by]

\* the initialization document of ensureQdrantCollection
InitDocument(p) == Document(InitText, InitSource, 0, "", p)

\* ------------------------------------------------------------------ inputs

\* multer: filename = Date.now() + "-" + file.originalname, in uploadsDir
UploadPath(originalname) == <<"uploads", "/", "1699-", originalname>>

\* an extension taken without toLowerCase()
ExtName_CaseSensitive(originalname) ==
    CASE originalname = "report.pdf" -> ".pdf"
      [] originalname = "REPORT.PDF" -> ".PDF"
      [] originalname = "data.csv" -> ".csv"
      [] OTHER -> ".txt"

\* path.extname(filePath).toLowerCase()
ExtName(originalname) ==
    CASE originalname \in {"report.pdf", "REPORT.PDF"} -> ".pdf"
      [] originalname = "data.csv" -> ".csv"
      [] OTHER -> ".txt"

PageTexts == {EmptyText, SomeText}

\* the page texts a PDF loader can extract: up to MaxPages pages
PageLists == UNION {[1..n -> PageTexts] : n \in 0..MaxPages}

\* req.file: absent, or an uploaded file; loads tells whether the loader
\* (PDFLoader / readFileSync) succeeds on it
NoFile == [present |-> FALSE]
UploadedFile(name, pages, content, loads) ==
    [present |-> TRUE, originalname |-> name, pages |-> pages,
     content |-> content, loads |-> loads]
UploadFiles ==
    {UploadedFile("report.pdf", pl, EmptyText, TRUE) : pl \in PageLists}
    \cup {UploadedFile("data.csv", << >>, t, TRUE) : t \in Texts}
    \cup {UploadedFile("report.pdf", << >>, EmptyText, FALSE),
          UploadedFile("REPORT.PDF", <<SomeText>>, EmptyText, TRUE),
          UploadedFile("data.csv", << >>, EmptyText, FALSE),
          UploadedFile("notes.txt", << >>, SomeText, TRUE)}

\* req.body.url: absent, not parseable by new URL(), a web page, a web PDF;
\* pages are the texts the loader extracts, loads whether it succeeds
NoUrl == << >>
BadUrl == <<"not a url">>
PageUrl == <<"https", "://", "h", "/", "p">>
PdfUrl == <<"https", "://", "h", "/", "d.PDF">>

\* new URL(url) does not throw
ValidUrl(url) == url \in {PageUrl, PdfUrl}

\* url.toLowerCase().endsWith(".pdf")
EndsWithPdf(url) == url = PdfUrl

WebInput(url, pages, loads) == [url |-> url, pages |-> pages, loads |-> loads]
WebInputs ==
    {WebInput(NoUrl, << >>, TRUE), WebInput(BadUrl, << >>, TRUE),
     WebInput(PageUrl, << >>, FALSE), WebInput(PdfUrl, << >>, FALSE)}
    \cup {WebInput(PageUrl, <<t>>, TRUE) : t \in Texts}
    \cup {WebInput(PdfUrl, pl, TRUE) : pl \in PageLists}

Queries == {EmptyText, SomeText}

\* what the generator may answer
Answers == {"answer", "answer (Source: user-input)"}

\* ------------------------------------------------------------------ responses

NoResp == [status |-> 0]

\* res.json({ success: true, message })
Success(msg) == [status |-> 200, success |-> TRUE, message |-> msg]

\* res.status(code).json({ error }) and ({ error, details })
Error(code, msg) == [status |-> code, error |-> msg]
ErrorDetails(code, msg, details) ==
    [status |-> code, error |-> msg, details |-> details]

CallSites ==
    {"load", "connect", "embed", "check", "create", "upsert", "search",
     "generate"}

IdleReq(kind) ==
    [kind |-> kind, pc |-> "idle", input |-> << >>, docs |-> << >>,
     resp |-> NoResp, sent |-> 0, outcome |-> "none", err |-> "none",
     failedAt |-> "none",
     calls |-> [c \in CallSites |-> 0], sawExisting |-> FALSE,
     wrote |-> 0, creates |-> 0, observed |-> "none",
     retrieved |-> << >>, messages |-> << >>, tmp |-> FALSE,
     faulted |-> FALSE]

Kinds == {"save-text", "upload-document", "process-website", "chat"}
Ingestions == {"save-text", "upload-document", "process-website"}

\* ------------------------------------------------------------------ the store

HasInitRecord == \E i \in 1..Len(points) : points[i].source = InitSource

\* a bootstrap has created the collection and not yet written its record
BootPartial ==
    /\ collExists
    /\ ~HasInitRecord
    /\ \E b \in Boot : req[b].creates = 1 /\ req[b].pc = "fd_upsert"

\* what a request finds when it looks the collection up
CollectionState ==
    IF ~collExists THEN "missing"
    ELSE IF BootPartial THEN "partial" ELSE "ready"

\* the outcomes of one call to an external service: it answers, or (while
\* the fault budget lasts) it is unavailable
CallOutcomes == IF faults < MaxFaults THEN {"ok", "unavailable"} ELSE {"ok"}

Charge(o) == faults' = faults + (IF o = "unavailable" THEN 1 ELSE 0)

Called(r, site) == [r EXCEPT !.calls[site] = @ + 1]

Min(a, b) == IF a < b THEN a ELSE b

\* the results a similarity search for k neighbours can return: all points
\* when there are at most k, otherwise some k of them (scores are unknown)
Retrievals(pts, k) ==
    IF Len(pts) <= k THEN {pts}
    ELSE {[i \in 1..k |-> pts[f[i]]] :
            f \in {g \in [1..k -> 1..Len(pts)] :
                     \A i \in 1..(k - 1) : g[i] < g[i + 1]}}

\* ------------------------------------------------------------------ handlers

Respond(r, resp) ==
    [r EXCEPT !.pc = "done", !.resp = resp, !.sent = @ + 1,
              !.outcome = IF resp.status = 200 THEN "ok" ELSE "error"]

\* ensureQdrantCollection: the inner try block completed
ensureQdrantCollection_Resolved(r) == [r EXCEPT !.pc = "done", !.outcome = "ok"]

\* ensureQdrantCollection: the outer catch rethrows, the caller's .catch logs
ensureQdrantCollection_Rethrow(r, site, e) ==
    [r EXCEPT !.pc = "done", !.outcome = "error", !.err = e, !.failedAt = site]

\* POST /api/save-text after fromDocuments resolved
saveText_Stored(r) == Respond(r, Success("Text saved successfully"))

\* a save-text catch block that swallows the error and confirms
saveText_Catch_Swallow(r, site, e) ==
    Respond([r EXCEPT !.err = e, !.failedAt = site],
            Success("Text saved successfully"))

\* POST /api/save-text: catch (error)
saveText_Catch(r, site, e) ==
    Respond([r EXCEPT !.err = e, !.failedAt = site],
            Error(500, "Failed to save text"))

\* POST /api/upload-document after fromDocuments resolved: on to the cleanup
uploadDocument_Stored(r) == [r EXCEPT !.pc = "unlink"]

\* POST /api/upload-document: the outer catch (error)
uploadDocument_Catch(r, site, e) ==
    Respond([r EXCEPT !.err = e, !.failedAt = site],
            ErrorDetails(500, "Failed to process document", e))

\* a catch (storageError) that responds without returning
uploadDocument_StorageError_NoReturn(r, site, e) ==
    [Respond([r EXCEPT !.err = e, !.failedAt = site],
             ErrorDetails(500, "Failed to store documents in vector database", e))
        EXCEPT !.pc = "unlink"]

\* POST /api/upload-document: catch (storageError)
uploadDocument_StorageError(r, site, e) ==
    Respond([r EXCEPT !.err = e, !.failedAt = site],
            ErrorDetails(500, "Failed to store documents in vector database", e))

\* POST /api/process-website after fromDocuments resolved
processWebsite_Stored(r) ==
    Respond(r, Success("Website content processed and saved successfully"))

\* POST /api/process-website: catch (vectorError)
processWebsite_VectorError(r, site, e) ==
    Respond([r EXCEPT !.err = e, !.failedAt = site],
            ErrorDetails(500,
                "Failed to store website content in vector database", e))

\* a chat catch block that leaves the handler at the failed call, to retry
chat_Catch_Retry(r, site, e) == [r EXCEPT !.err = e, !.failedAt = site]

\* POST /api/chat: catch (error)
chat_Catch(r, site, e) ==
    Respond([r EXCEPT !.err = e, !.failedAt = site],
            ErrorDetails(500, "Failed to generate response", e))

\* the continuation of the handler that awaits fromDocuments
Resolve(r) ==
    CASE r.kind = "boot" -> ensureQdrantCollection_Resolved(r)
      [] r.kind = "save-text" -> saveText_Stored(r)
      [] r.kind = "upload-document" -> uploadDocument_Stored(r)
      [] OTHER -> processWebsite_Stored(r)

Reject(r, site, e) ==
    CASE r.kind = "boot" -> ensureQdrantCollection_Rethrow(r, site, e)
      [] r.kind = "save-text" -> saveText_Catch(r, site, e)
      [] r.kind = "upload-document" -> uploadDocument_StorageError(r, site, e)
      [] OTHER -> processWebsite_VectorError(r, site, e)

\* QdrantVectorStore.fromDocuments(docs, ...): nothing to embed or write for
\* an empty list
EnterFromDocuments(r, docs) ==
    IF docs = << >> THEN Resolve([r EXCEPT !.docs = docs])
    ELSE [r EXCEPT !.pc = "fd_embed", !.docs = docs]

\* a bootstrap that writes the initialization document unconditionally
ensureQdrantCollection_AlwaysCreate(r, p, connected) ==
    [r EXCEPT !.pc = "fd_embed", !.docs = <<[pageContent |-> InitText,
        source |-> InitSource, page |-> 0, type |-> "", by |-> p]>>]

\* ensureQdrantCollection after fromExistingCollection: connected, or the
\* catch block creates the collection from the initialization document
ensureQdrantCollection_AfterConnect(r, p, connected) ==
    IF connected THEN ensureQdrantCollection_Resolved(r)
    ELSE EnterFromDocuments(r, <<InitDocument(p)>>)

\* the documents of an uploaded PDF: one per page, source = the stored path
PdfDocuments(file, p) ==
    [i \in 1..Len(file.pages) |->
        Document(file.pages[i], UploadPath(file.originalname), i, "", p)]

\* a CSV loader that makes one document per row (here: per character)
CsvDocuments_PerRow(file, p) ==
    [i \in 1..Len(file.content) |->
        Document(<<file.content[i]>>, <<file.originalname>>, 0, "csv", p)]

\* the document of an uploaded CSV: the whole content, source = originalname
CsvDocuments(file, p) ==
    <<Document(file.content, <<file.originalname>>, 0, "csv", p)>>

\* the documents of a loaded URL
WebDocuments(in, p) ==
    [i \in 1..Len(in.pages) |->
        Document(in.pages[i], in.url, IF EndsWithPdf(in.url) THEN i ELSE 0,
                 "", p)]

\* a save-text without the check of req.body.text
saveText_Begin_NoValidation(r, p, text) ==
    EnterFromDocuments(r, <<Document(text, UserInputSource, 0, "", p)>>)

\* a save-text that skips a text whose content is already in the collection
saveText_Begin_Dedupe(r, p, text) ==
    IF ~Truthy(text) THEN Respond(r, Error(400, "No text provided"))
    ELSE IF \E i \in 1..Len(points) : points[i].pageContent = text
    THEN Respond(r, Success("Text saved successfully"))
    ELSE EnterFromDocuments(r, <<Document(text, UserInputSource, 0, "", p)>>)

\* POST /api/save-text up to the call of fromDocuments
saveText_Begin(r, p, text) ==
    IF ~Truthy(text) THEN Respond(r, Error(400, "No text provided"))
    ELSE EnterFromDocuments(r, <<Document(text, UserInputSource, 0, "", p)>>)

\* POST /api/upload-document up to the call of fromDocuments
uploadDocument_Begin(r, p, file) ==
    IF ~file.present THEN Respond(r, Error(400, "No file uploaded"))
    ELSE LET r1 == [r EXCEPT !.tmp = TRUE]
             ext == ExtName(file.originalname)
         IN  IF ext = ".pdf" THEN
                 IF ~file.loads
                 THEN Respond(Called(r1, "load"),
                              ErrorDetails(500, "Failed to process PDF file",
                                           "LoaderError"))
                 ELSE EnterFromDocuments(Called(r1, "load"), PdfDocuments(file, p))
             ELSE IF ext = ".csv" THEN
                 IF ~file.loads
                 THEN Respond(Called(r1, "load"),
                              ErrorDetails(500, "Failed to process CSV file",
                                           "LoaderError"))
                 ELSE EnterFromDocuments(Called(r1, "load"), CsvDocuments(file, p))
             ELSE Respond(r1, Error(400, "Unsupported file type"))

\* POST /api/process-website up to the call of fromDocuments
processWebsite_Begin(r, p, in) ==
    IF ~Truthy(in.url) THEN Respond(r, Error(400, "No URL provided"))
    ELSE IF ~ValidUrl(in.url)
    THEN Respond(r, ErrorDetails(400, "Invalid URL format", "TypeError"))
    ELSE IF ~in.loads
    THEN Respond(Called(r, "load"), ErrorDetails(500,
             IF EndsWithPdf(in.url) THEN "Failed to process PDF from URL"
             ELSE "Failed to fetch or parse webpage", "LoaderError"))
    ELSE IF Len(in.pages) = 0
    THEN Respond(Called(r, "load"), ErrorDetails(400,
             "No content extracted from the provided URL",
             "The website might be empty or blocking content extraction"))
    ELSE EnterFromDocuments(Called(r, "load"), WebDocuments(in, p))

\* ------------------------------------------------------------------ actions

\* a call that found the service unavailable marks the process
Faulted(r, o) == IF o = "unavailable" THEN [r EXCEPT !.faulted = TRUE] ELSE r

\* a lookup that finds the collection records what it found
Observe(r) ==
    IF CollectionState = "partial" THEN [r EXCEPT !.observed = "partial"]
    ELSE IF r.observed = "none" THEN [r EXCEPT !.observed = CollectionState]
    ELSE r

\* ensureQdrantCollection: await QdrantVectorStore.fromExistingCollection
ensureQdrantCollection_Connect(p) ==
    /\ p \in Boot
    /\ req[p].pc = "idle"
    /\ \E o \in CallOutcomes :
         LET connected == o = "ok" /\ collExists
             r == [Faulted(Called(req[p], "connect"), o)
                      EXCEPT !.sawExisting = connected]
         IN  /\ req' = [req EXCEPT
                          ![p] = ensureQdrantCollection_AfterConnect(r, p, connected)]
             /\ Charge(o)
    /\ UNCHANGED <<collExists, points, created, chat>>

\* fromDocuments: embeddings.embedDocuments
fromDocuments_Embed(p) ==
    /\ req[p].pc = "fd_embed"
    /\ \E o \in CallOutcomes :
         LET r == Faulted(Called(req[p], "embed"), o)
         IN  /\ req' = [req EXCEPT ![p] =
                          IF o = "ok" THEN [r EXCEPT !.pc = "fd_check"]
                          ELSE Reject(r, "embed", "EmbeddingUnavailable")]
             /\ Charge(o)
    /\ UNCHANGED <<collExists, points, created, chat>>

\* fromDocuments: look the collection up
fromDocuments_Check(p) ==
    /\ req[p].pc = "fd_check"
    /\ \E o \in CallOutcomes :
         LET r == Faulted(Called(req[p], "check"), o)
         IN  /\ req' = [req EXCEPT ![p] =
                          IF o = "ok"
                          THEN [Observe(r) EXCEPT !.pc =
                                   IF collExists THEN "fd_upsert" ELSE "fd_create"]
                          ELSE Reject(r, "check", "StoreUnavailable")]
             /\ Charge(o)
    /\ UNCHANGED <<collExists, points, created, chat>>

\* fromDocuments: create the collection that the lookup did not find
fromDocuments_Create(p) ==
    /\ req[p].pc = "fd_create"
    /\ \E o \in CallOutcomes :
         LET r == Faulted(Called(req[p], "create"), o)
         IN  /\ Charge(o)
             /\ IF o = "ok" /\ ~collExists
                THEN /\ collExists' = TRUE
                     /\ created' = created + 1
                     /\ req' = [req EXCEPT ![p] =
                                  [r EXCEPT !.pc = "fd_upsert", !.creates = 1]]
                ELSE /\ UNCHANGED <<collExists, created>>
                     /\ req' = [req EXCEPT ![p] =
                                  Reject(r, "create",
                                         IF o = "ok" THEN "AlreadyExists"
                                         ELSE "StoreUnavailable")]
    /\ UNCHANGED <<points, chat>>

\* fromDocuments: upsert all points in one request
fromDocuments_Upsert(p) ==
    /\ req[p].pc = "fd_upsert"
    /\ \E o \in CallOutcomes :
         LET r == Faulted(Called(req[p], "upsert"), o)
         IN  /\ Charge(o)
             /\ IF o = "ok"
                THEN /\ points' = points \o r.docs
                     /\ req' = [req EXCEPT ![p] =
                                  Resolve([r EXCEPT !.wrote = Len(r.docs)])]
                ELSE /\ UNCHANGED points
                     /\ req' = [req EXCEPT ![p] =
                                  Reject(r, "upsert", "StoreUnavailable")]
    /\ UNCHANGED <<collExists, created, chat>>

\* POST /api/upload-document: fs.unlinkSync(filePath), then res.json; when
\* the unlink throws, the outer catch answers
uploadDocument_Cleanup(p) ==
    /\ req[p].pc = "unlink"
    /\ \E o \in CallOutcomes :
         LET r == Faulted(req[p], o)
         IN  /\ Charge(o)
             /\ req' = [req EXCEPT ![p] =
                          IF o = "ok"
                          THEN Respond([r EXCEPT !.tmp = FALSE],
                                 Success("Document processed and saved successfully"))
                          ELSE uploadDocument_Catch(r, "unlink", "UnlinkError")]
    /\ UNCHANGED <<collExists, points, created, chat>>

\* POST /api/save-text
saveText(p, text) ==
    /\ p \in Req
    /\ req[p].pc = "idle"
    /\ req' = [req EXCEPT ![p] =
                 saveText_Begin([@ EXCEPT !.kind = "save-text", !.input = text],
                                p, text)]
    /\ UNCHANGED <<collExists, points, created, faults, chat>>

\* POST /api/upload-document
uploadDocument(p, file) ==
    /\ p \in Req
    /\ req[p].pc = "idle"
    /\ req' = [req EXCEPT ![p] =
                 uploadDocument_Begin(
                     [@ EXCEPT !.kind = "upload-document", !.input = file],
                     p, file)]
    /\ UNCHANGED <<collExists, points, created, faults, chat>>

\* POST /api/process-website
processWebsite(p, in) ==
    /\ p \in Req
    /\ req[p].pc = "idle"
    /\ req' = [req EXCEPT ![p] =
                 processWebsite_Begin(
                     [@ EXCEPT !.kind = "process-website", !.input = in],
                     p, in)]
    /\ UNCHANGED <<collExists, points, created, faults, chat>>

\* POST /api/chat: validation, then await fromExistingCollection
chat_Connect(p, query) ==
    /\ p \in Req
    /\ req[p].pc = "idle"
    /\ LET r0 == [req[p] EXCEPT !.kind = "chat", !.input = query]
       IN  IF ~Truthy(query)
           THEN /\ req' = [req EXCEPT ![p] =
                             Respond(r0, Error(400, "No query provided"))]
                /\ UNCHANGED faults
           ELSE \E o \in CallOutcomes :
                  LET r == Faulted(Called(r0, "connect"), o)
                  IN  /\ Charge(o)
                      /\ req' = [req EXCEPT ![p] =
                                   IF o = "unavailable"
                                   THEN chat_Catch(r, "connect", "StoreUnavailable")
                                   ELSE IF ~collExists
                                   THEN chat_Catch(r, "connect", "NotFound")
                                   ELSE [Observe(r) EXCEPT !.pc = "search"]]
    /\ UNCHANGED <<collExists, points, created, chat>>

\* POST /api/chat: await vectorRetriever.invoke(query): embed, then search
chat_Retrieve(p) ==
    /\ req[p].pc = "search"
    /\ \E o \in CallOutcomes :
         LET re == Faulted(Called(req[p], "embed"), o)
         IN  IF o = "unavailable"
             THEN /\ Charge(o)
                  /\ req' = [req EXCEPT ![p] =
                               chat_Catch(re, "embed", "EmbeddingUnavailable")]
             ELSE \E o2 \in CallOutcomes :
                    LET r == Faulted(Called(re, "search"), o2)
                    IN  /\ Charge(o2)
                        /\ \E res \in Retrievals(points, RetrieverK) :
                             req' = [req EXCEPT ![p] =
                                       IF o2 = "unavailable"
                                       THEN chat_Catch(r, "search", "StoreUnavailable")
                                       ELSE [Observe(r) EXCEPT !.pc = "generate",
                                                               !.retrieved = res]]
    /\ UNCHANGED <<collExists, points, created, chat>>

\* JSON.stringify(relevantChunks): the content and metadata of each chunk
Stringify(docs) ==
    [i \in 1..Len(docs) |->
        [pageContent |-> docs[i].pageContent, source |-> docs[i].source,
         page |-> docs[i].page, type |-> docs[i].type]]

\* the system message: the fixed instructions with the context appended
SystemMessage(relevantChunks) ==
    [role |-> "system",
     content |-> [instructions |-> "SYSTEM_PROMPT",
                  context |-> Stringify(relevantChunks)]]

UserMessage(query) == [role |-> "user", content |-> query]

\* a messages array that also carries the query of a chat request answered
\* before
chat_Messages_WithHistory(query, relevantChunks) ==
    LET answered == {q \in Req : /\ req[q].kind = "chat"
                                 /\ req[q].pc = "done"
                                 /\ req[q].resp.status = 200}
    IN  <<SystemMessage(relevantChunks)>>
            \o (IF answered = {} THEN << >>
                ELSE <<UserMessage(req[CHOOSE q \in answered : TRUE].input)>>)
            \o <<UserMessage(query)>>

\* the messages of client.chat.completions.create
chat_Messages(query, relevantChunks) ==
    <<SystemMessage(relevantChunks), UserMessage(query)>>

\* a chat handler that also indexes the query it answered
chat_Generate_Index(p) ==
    /\ req[p].pc = "generate"
    /\ \E o \in CallOutcomes :
         LET r == Faulted(Called(req[p], "generate"), o)
         IN  /\ Charge(o)
             /\ \E a \in Answers :
                  req' = [req EXCEPT ![p] =
                            IF o = "unavailable"
                            THEN chat_Catch(r, "generate", "GenerationUnavailable")
                            ELSE Respond(r, [status |-> 200, answer |-> a])]
             /\ points' = IF o = "unavailable" THEN points
                          ELSE Append(points, Document(req[p].input,
                                                       UserInputSource, 0, "", p))
    /\ UNCHANGED <<collExists, created, chat>>

\* POST /api/chat: await client.chat.completions.create, then res.json
chat_Generate(p) ==
    /\ req[p].pc = "generate"
    /\ \E o \in CallOutcomes :
         LET r == Faulted(Called(
                      [req[p] EXCEPT !.messages =
                          chat_Messages(req[p].input, req[p].retrieved)],
                      "generate"), o)
         IN  /\ Charge(o)
             /\ \E a \in Answers :
                  req' = [req EXCEPT ![p] =
                            IF o = "unavailable"
                            THEN chat_Catch(r, "generate", "GenerationUnavailable")
                            ELSE Respond(r, [status |-> 200, answer |-> a])]
    /\ UNCHANGED <<collExists, points, created, chat>>

\* ------------------------------------------------------------------ citation

\* Message text is a sequence of tokens: "(" ")" "," "/" "://", a space, a
\* newline, a digit or a word are one token each.
SourceCS == {"Source:", "source:"}
SourceCI == SourceCS \cup {"SOURCE:"}
IsDigit(c) == c \in {"0", "1", "2", "3", "4", "5", "6", "7", "8", "9"}
PageLit == <<",", " ", "page", " ">>

AllWs(t, a, b) == \A i \in a..b : IsWhitespace(t[i])
NoNewline(t, a, b) == \A i \in a..b : t[i] # "\n"
MinOf(S) == CHOOSE x \in S : \A y \in S : x <= y
MaxOf(S) == CHOOSE x \in S : \A y \in S : x >= y

\* /\s*\([Ss]ource:.*?\)\s*$/ matches t from position s on
StripMatchAt(t, s) ==
    \E k \in s..(Len(t) - 2) :
        /\ AllWs(t, s, k - 1)
        /\ t[k] = "("
        /\ t[k + 1] \in SourceCS
        /\ \E j \in (k + 2)..Len(t) :
             /\ t[j] = ")"
             /\ NoNewline(t, k + 2, j - 1)
             /\ AllWs(t, j + 1, Len(t))

\* message.text.replace(/\s*\([Ss]ource:.*?\)\s*$/, ""): the leftmost match
\* is removed, and it runs to the end of the text
DisplayedText(t) ==
    LET S == {s \in 1..Len(t) : StripMatchAt(t, s)}
    IN  IF S = {} THEN t ELSE SubSeq(t, 1, MinOf(S) - 1)

\* the start positions at which /\([Ss]ource:.*?\)$/i matches t
CitationStarts(t) ==
    {k \in 1..(Len(t) - 2) :
        /\ t[k] = "("
        /\ t[k + 1] \in SourceCI
        /\ t[Len(t)] = ")"
        /\ NoNewline(t, k + 2, Len(t) - 1)}

\* message.text.match(/\([Ss]ource:.*?\)$/i)[0]
CitationMatch(t) == SubSeq(t, MinOf(CitationStarts(t)), Len(t))

\* ", page <digits>" ends right before the closing parenthesis of c and
\* starts at m
PageAt(c, m) ==
    /\ m + 4 <= Len(c) - 1
    /\ SubSeq(c, m, m + 3) = PageLit
    /\ \A i \in (m + 4)..(Len(c) - 1) : IsDigit(c[i])

\* /\([Ss]ource: (.*?)(, page (\d+))?\)$/i matches c from position k on,
\* with the page group starting at m (m = 0: without the page group)
FilePathMatchAt(c, k, m) ==
    /\ k + 3 <= Len(c)
    /\ c[k] = "("
    /\ c[k + 1] \in SourceCI
    /\ c[k + 2] = " "
    /\ c[Len(c)] = ")"
    /\ IF m = 0 THEN NoNewline(c, k + 3, Len(c) - 1)
       ELSE m >= k + 3 /\ PageAt(c, m) /\ NoNewline(c, k + 3, m - 1)

\* path.startsWith("http")
StartsWithHttp(path) ==
    path # << >> /\ path[1] \in {"http", "https", "httpdocs"}

\* path.includes(x)
Includes(path, x) == \E i \in 1..Len(path) : path[i] = x

\* path.split("/").pop()
LastSegment(path) ==
    IF Includes(path, "/")
    THEN SubSeq(path, MaxOf({i \in 1..Len(path) : path[i] = "/"}) + 1, Len(path))
    ELSE path

\* formatSourceCitation(sourceCitation)
formatSourceCitation(c) ==
    LET n == Len(c)
        M == {km \in (1..n) \X (0..n) : FilePathMatchAt(c, km[1], km[2])}
    IN  IF M = {} THEN c
        ELSE LET k == MinOf({km[1] : km \in M})
                 \* the lazy (.*?) ends at the page group when there is one
                 ms == {km[2] : km \in {x \in M : x[1] = k}} \ {0}
                 m == IF ms = {} THEN 0 ELSE MinOf(ms)
                 path == SubSeq(c, k + 3, (IF m = 0 THEN n ELSE m) - 1)
                 pageInfo == IF m = 0 THEN << >>
                             ELSE PageLit \o SubSeq(c, m + 4, n - 1)
                 filename == LastSegment(path)
             IN  IF StartsWithHttp(path) \/ Includes(path, "://")
                 THEN <<"(", "Source:", " ">> \o path \o pageInfo \o <<")">>
                 ELSE IF filename # << >>
                 THEN <<"(", "Source:", " ">> \o filename \o pageInfo \o <<")">>
                 ELSE c

NoRender == [shown |-> FALSE]

\* the message card: the text without the citation, and for an AI message
\* whose text ends in a citation the citation box
MessageCard(msg) ==
    LET box == msg.sender = "ai" /\ CitationStarts(msg.text) # {}
    IN  [shown |-> TRUE,
         displayed |-> DisplayedText(msg.text),
         box |-> box,
         citation |-> IF box THEN formatSourceCitation(CitationMatch(msg.text))
                      ELSE << >>]

\* ------------------------------------------------------------------ answers

\* the pieces an answer body is made of: words, whitespace, the substring
\* "Source:", and a complete earlier citation
BodyFrags ==
    {<<"A">>, <<" ">>, <<"\n">>, <<"Source:">>,
     <<"(", "Source:", " ", "x", ")">>}

TagOpens == {<<"(", w>> : w \in SourceCI}
TagSpaces == {<< >>, <<" ">>}
TagPaths ==
    {<<"report.pdf">>, <<"tmp", "/", "report.pdf">>, <<"user-input">>,
     <<"https", "://", "h", "/", "doc">>, <<"httpdocs", "/", "report.pdf">>,
     <<"tmp", "/">>}
TagPages == {<< >>, PageLit \o <<"4">>, PageLit}
TagCloses == {<< >>, <<")">>}
Trails == {<< >>, <<" ">>, <<"\n">>}

NoTag == [open |-> << >>, space |-> << >>, path |-> << >>, page |-> << >>,
          close |-> << >>]
Tags ==
    {[open |-> o, space |-> s, path |-> p, page |-> g, close |-> c] :
        o \in TagOpens, s \in TagSpaces, p \in TagPaths, g \in TagPages,
        c \in TagCloses}
    \cup {NoTag}

TagText(tag) == tag.open \o tag.space \o tag.path \o tag.page \o tag.close

EmptyDraft == [body |-> << >>, frags |-> 0, tag |-> NoTag, trail |-> << >>]
DraftText(d) == d.body \o TagText(d.tag) \o d.trail

NoMessage == [sender |-> "none", text |-> << >>]

\* the generator (or the user) produces one more piece of the text
Compose(frag) ==
    /\ message = NoMessage
    /\ draft.frags < MaxBodyFrags
    /\ draft' = [draft EXCEPT !.body = @ \o frag, !.frags = @ + 1]
    /\ UNCHANGED <<server, message, rendered, ui>>

\* handleSubmit: setMessages((prev) => [...prev, aiMessage]) with the answer
\* text, or the user's own message
setMessages(sender, tag, trail) ==
    /\ message = NoMessage
    /\ draft' = [draft EXCEPT !.tag = tag, !.trail = trail]
    /\ message' = [sender |-> sender, text |-> DraftText(draft')]
    /\ UNCHANGED <<server, rendered, ui>>

\* messages.map((message, index) => ...): the card of the message
renderMessage ==
    /\ message # NoMessage
    /\ rendered = NoRender
    /\ rendered' = MessageCard(message)
    /\ UNCHANGED <<server, draft, message, ui>>

\* ------------------------------------------------------------------ client

\* DocumentInput.jsx: the notification a handler shows for the axios outcome
\* (axios rejects any status outside 2xx)
Notification(kind, resp) ==
    IF resp.status = 200 THEN
        [severity |-> "success", message |->
            CASE kind = "save-text" -> <<"Text saved successfully!">>
              [] kind = "upload-document" ->
                    <<"Document uploaded and processed successfully!">>
              [] OTHER -> <<"Website processed successfully!">>]
    ELSE
        [severity |-> "error", message |->
            CASE kind = "save-text" -> <<"Failed to save text">>
              [] kind = "upload-document" ->
                    IF "details" \in DOMAIN resp
                    THEN <<"Failed to upload document: ", resp.error, resp.details>>
                    ELSE <<"Failed to upload document: ",
                           "Request failed with status code">>
              [] OTHER ->
                    IF "details" \in DOMAIN resp
                    THEN <<"Failed to process website: ", resp.error, resp.details>>
                    ELSE <<"Failed to process website: ",
                           "Request failed with status code">>]

\* ChatInterface handleSubmit: the AI message added for the axios outcome
handleSubmit_Reply(resp) ==
    IF resp.status = 200
    THEN [text |-> resp.answer, sender |-> "ai", isError |-> FALSE]
    ELSE [text |-> "Sorry, I had trouble answering that question. Please try again.",
          sender |-> "ai", isError |-> TRUE]

\* ------------------------------------------------------------------ chat panel

\* the POST routes that api/index.js registers
Routes ==
    {"/api/save-text", "/api/upload-document", "/api/process-website",
     "/api/chat"}

\* what response.data.transcription holds for recognised speech
Transcript == <<"y", "o">>

\* useState initial values of ChatInterface and of App / DocumentInput; mic is
\* the recorder of ReactMic; the other fields are the requests in flight
\* and counts of what has happened
InitUi ==
    [messages |-> << >>, input |-> EmptyText, isTyping |-> FALSE,
     isRecording |-> FALSE, isTranscribing |-> FALSE, audioBlob |-> "null",
     mic |-> "idle", chatInFlight |-> << >>, trInFlight |-> 0,
     submits |-> 0, recordings |-> 0, trSent |-> 0,
     stopped |-> [b \in {"none", "small", "big"} |-> 0],
     lastTr |-> [backend |-> "none", resp |-> "none", input |-> EmptyText],
     isLoading |-> FALSE, ingestInFlight |-> << >>, ingestSubmits |-> 0,
     notification |-> "none"]

\* s without its i-th element
RemoveAt(s, i) == SubSeq(s, 1, i - 1) \o SubSeq(s, i + 1, Len(s))

\* a send button that stays enabled while an answer is awaited
SendDisabled_IgnoringTyping(u) ==
    IsBlank(u.input) \/ u.isRecording \/ u.isTranscribing

\* the send button: disabled={!input.trim() || isTyping || isRecording ||
\* isTranscribing}
SendDisabled(u) ==
    IsBlank(u.input) \/ u.isTyping \/ u.isRecording \/ u.isTranscribing

\* the text field: disabled={isRecording || isTranscribing}
InputDisabled(u) == u.isRecording \/ u.isTranscribing

\* the mic button: disabled={isTyping || isTranscribing}
MicDisabled(u) == u.isTyping \/ u.isTranscribing

\* onChange={(e) => setInput(e.target.value)}
setInput(text) ==
    /\ ~InputDisabled(ui)
    /\ ui.input # text
    /\ ui' = [ui EXCEPT !.input = text]
    /\ UNCHANGED <<server, draft, message, rendered>>

\* handleSubmit up to the await of axios.post
handleSubmit_Begin(u) ==
    IF IsBlank(u.input) THEN u
    ELSE [u EXCEPT
            !.messages = Append(@, [text |-> u.input, sender |-> "user",
                                    isError |-> FALSE]),
            !.input = EmptyText,
            !.isTyping = TRUE,
            !.chatInFlight = Append(@, [query |-> u.input]),
            !.submits = @ + 1]

\* the form is submitted (send button, or Enter while the button is enabled)
handleSubmit ==
    /\ ~SendDisabled(ui)
    /\ ui.submits < MaxSubmits
    /\ ui' = handleSubmit_Begin(ui)
    /\ UNCHANGED <<server, draft, message, rendered>>

\* handleSubmit after the await: the answer or the error message, finally
handleSubmit_Settled(i, resp) ==
    /\ i \in 1..Len(ui.chatInFlight)
    /\ ui' = [ui EXCEPT
                !.messages = Append(@, handleSubmit_Reply(resp)),
                !.notification = IF resp.status = 200 THEN @
                                 ELSE "Failed to get response",
                !.isTyping = FALSE,
                !.chatInFlight = RemoveAt(@, i)]
    /\ UNCHANGED <<server, draft, message, rendered>>

\* handleAudioStart (mic button while not recording)
handleAudioStart ==
    /\ ~MicDisabled(ui)
    /\ ~ui.isRecording
    /\ ui.mic = "idle"
    /\ ui.recordings < MaxRecordings
    /\ ui' = [ui EXCEPT !.audioBlob = "null", !.isRecording = TRUE,
                        !.mic = "recording", !.recordings = @ + 1,
                        !.notification = "Recording started"]
    /\ UNCHANGED <<server, draft, message, rendered>>

\* stopRecording (mic button while recording): ReactMic stops the recorder
\* and calls onStop later
stopRecording ==
    /\ ~MicDisabled(ui)
    /\ ui.isRecording
    /\ ui' = [ui EXCEPT !.isRecording = FALSE, !.mic = "stopping"]
    /\ UNCHANGED <<server, draft, message, rendered>>

\* handleAudioStop up to the await of axios.post; blob is what ReactMic
\* hands over: nothing, a blob under 1000 bytes, a longer one
handleAudioStop_Begin(u, blob) ==
    LET u1 == [u EXCEPT !.isRecording = FALSE, !.mic = "idle",
                        !.stopped[blob] = @ + 1]
    IN  IF blob = "none"
        THEN [u1 EXCEPT !.isTranscribing = FALSE,
                        !.notification = "No audio data received"]
        ELSE IF blob = "small"
        THEN [u1 EXCEPT !.audioBlob = blob, !.isTranscribing = FALSE,
                        !.notification = "Recording too short"]
        ELSE [u1 EXCEPT !.audioBlob = blob, !.isTranscribing = TRUE,
                        !.trInFlight = @ + 1, !.trSent = @ + 1]

\* onStop={handleAudioStop}
handleAudioStop(blob) ==
    /\ ui.mic = "stopping"
    /\ ui' = handleAudioStop_Begin(ui, blob)
    /\ UNCHANGED <<server, draft, message, rendered>>

\* what a backend answers to POST /api/transcribe-audio: api/index.js by its
\* routes, or a backend that has the route
TranscribeResponses(backend) ==
    IF backend = "api/index.js" /\ "/api/transcribe-audio" \notin Routes
    THEN {"not found"}
    ELSE {"transcription", "empty", "error"}

\* a handleAudioStop whose catch block is its last block
handleAudioStop_AfterAwait_NoFinally(u, backend, resp) ==
    LET u1 == [u EXCEPT !.trInFlight = @ - 1]
        u2 == IF resp = "transcription"
              THEN [u1 EXCEPT !.input = Transcript, !.isTranscribing = FALSE,
                              !.notification = "Audio transcribed successfully"]
              ELSE IF resp = "empty"
              THEN [u1 EXCEPT !.input = EmptyText, !.isTranscribing = FALSE,
                              !.notification = "No speech detected"]
              ELSE [u1 EXCEPT !.notification = "Failed to transcribe audio"]
    IN  [u2 EXCEPT !.lastTr = [backend |-> backend, resp |-> resp,
                               input |-> u2.input]]

\* handleAudioStop after the await: the transcription goes to the input, an
\* empty one clears it, a rejection is notified; finally
handleAudioStop_AfterAwait(u, backend, resp) ==
    LET u1 == [u EXCEPT !.trInFlight = @ - 1, !.isTranscribing = FALSE]
        u2 == IF resp = "transcription"
              THEN [u1 EXCEPT !.input = Transcript,
                              !.notification = "Audio transcribed successfully"]
              ELSE IF resp = "empty"
              THEN [u1 EXCEPT !.input = EmptyText,
                              !.notification = "No speech detected"]
              ELSE [u1 EXCEPT !.notification = "Failed to transcribe audio"]
    IN  [u2 EXCEPT !.lastTr = [backend |-> backend, resp |-> resp,
                               input |-> u2.input]]

\* the transcription request settles
handleAudioStop_Settled(backend, resp) ==
    /\ ui.trInFlight > 0
    /\ resp \in TranscribeResponses(backend)
    /\ ui' = handleAudioStop_AfterAwait(ui, backend, resp)
    /\ UNCHANGED <<server, draft, message, rendered>>

\* the responses POST /api/chat can give
ChatResponses ==
    {[status |-> 200, answer |-> a] : a \in Answers}
    \cup {ErrorDetails(500, "Failed to generate response", "StoreUnavailable")}

InputTexts == {EmptyText, BlankText, SomeText}
Backends == {"api/index.js", "whisper"}

\* ------------------------------------------------------------------ document input

\* handleTextSubmit / handleFileUpload / handleUrlSubmit up to the await:
\* ok tells whether the handler's own validation lets the input through
Ingest_Begin(u, kind, ok) ==
    IF ~ok THEN [u EXCEPT !.notification = "Please enter"]
    ELSE [u EXCEPT !.isLoading = TRUE,
                   !.ingestInFlight = Append(@, kind),
                   !.ingestSubmits = @ + 1]

\* handleTextSubmit: rejects text that trims to nothing
handleTextSubmit(text) ==
    /\ ui.ingestSubmits < MaxIngestSubmits
    /\ ui' = Ingest_Begin(ui, "save-text", ~IsBlank(text))
    /\ UNCHANGED <<server, draft, message, rendered>>

\* handleFileUpload: rejects no file and a MIME type without pdf or csv
handleFileUpload(file) ==
    /\ ui.ingestSubmits < MaxIngestSubmits
    /\ ui' = Ingest_Begin(ui, "upload-document",
                 file.present /\ file.originalname # "notes.txt")
    /\ UNCHANGED <<server, draft, message, rendered>>

\* handleUrlSubmit: rejects a url that trims to nothing
handleUrlSubmit(url) ==
    /\ ui.ingestSubmits < MaxIngestSubmits
    /\ ui' = Ingest_Begin(ui, "process-website", Truthy(url))
    /\ UNCHANGED <<server, draft, message, rendered>>

\* an ingestion handler after its await: the notification, finally
\* setIsLoading(false)
Ingest_Settled(i, status) ==
    /\ i \in 1..Len(ui.ingestInFlight)
    /\ ui' = [ui EXCEPT
                !.notification =
                    Notification(ui.ingestInFlight[i],
                                 [status |-> status]).severity,
                !.isLoading = FALSE,
                !.ingestInFlight = RemoveAt(@, i)]
    /\ UNCHANGED <<server, draft, message, rendered>>

\* ------------------------------------------------------------------ spec

\* a fresh store; the processes of `active` are still to run, the others
\* take no part
InitWith(active) ==
    /\ collExists = FALSE
    /\ points = << >>
    /\ created = 0
    /\ faults = 0
    /\ req = [p \in Procs |->
                [IdleReq(IF p \in Boot THEN "boot" ELSE "none")
                    EXCEPT !.pc = IF p \in active THEN "idle" ELSE "off"]]
    /\ draft = EmptyDraft
    /\ message = NoMessage
    /\ rendered = NoRender
    /\ ui = InitUi

\* two invocations of the bootstrap racing one request of any kind
Init == InitWith({"b1", "b2", "r1"})

Next ==
    \/ \E p \in Boot : ensureQdrantCollection_Connect(p)
    \/ \E p \in Procs : fromDocuments_Embed(p)
    \/ \E p \in Procs : fromDocuments_Check(p)
    \/ \E p \in Procs : fromDocuments_Create(p)
    \/ \E p \in Procs : fromDocuments_Upsert(p)
    \/ \E p \in Req, text \in Texts : saveText(p, text)
    \/ \E p \in Req, file \in UploadFiles \cup {NoFile} : uploadDocument(p, file)
    \/ \E p \in Req : uploadDocument_Cleanup(p)
    \/ \E p \in Req, in \in WebInputs : processWebsite(p, in)
    \/ \E p \in Req, query \in Queries : chat_Connect(p, query)
    \/ \E p \in Req : chat_Retrieve(p)
    \/ \E p \in Req : chat_Generate(p)

Spec == Init /\ [][Next]_vars

\* the chat panel on its own: an answer is produced, handed to the message
\* list and rendered
InitChat == InitWith({})

NextChat ==
    \/ \E frag \in BodyFrags : Compose(frag)
    \/ \E sender \in {"ai", "user"}, tag \in Tags, trail \in Trails :
          setMessages(sender, tag, trail)
    \/ renderMessage

SpecChat == InitChat /\ [][NextChat]_vars

\* the chat panel in use: typing, submitting, recording, transcribing
InitPanel == InitWith({})

NextPanel ==
    \/ \E text \in InputTexts : setInput(text)
    \/ handleSubmit
    \/ \E i \in 1..MaxSubmits, resp \in ChatResponses : handleSubmit_Settled(i, resp)
    \/ handleAudioStart
    \/ stopRecording
    \/ \E blob \in {"none", "small", "big"} : handleAudioStop(blob)
    \/ \E backend \in Backends, resp \in {"transcription", "empty", "error", "not found"} :
          handleAudioStop_Settled(backend, resp)

SpecPanel == InitPanel /\ [][NextPanel]_vars

\* every transcription request is settled at some time
SpecPanelLive ==
    SpecPanel
    /\ WF_vars(\E backend \in Backends,
                  resp \in {"transcription", "empty", "error", "not found"} :
                    handleAudioStop_Settled(backend, resp))

\* the document input in use: submissions and their completions
InitLoading == InitWith({})

NextLoading ==
    \/ \E text \in Texts : handleTextSubmit(text)
    \/ \E file \in UploadFiles \cup {NoFile} : handleFileUpload(file)
    \/ \E url \in {NoUrl, PageUrl} : handleUrlSubmit(url)
    \/ \E i \in 1..MaxIngestSubmits, status \in {200, 400, 500} :
          Ingest_Settled(i, status)

SpecLoading == InitLoading /\ [][NextLoading]_vars

\* one bootstrap and two requests, each a save-text or a chat
InitPair == InitWith({"b1", "r1", "r2"})

NextPair ==
    \/ \E p \in Boot : ensureQdrantCollection_Connect(p)
    \/ \E p \in Procs : fromDocuments_Embed(p)
    \/ \E p \in Procs : fromDocuments_Check(p)
    \/ \E p \in Procs : fromDocuments_Create(p)
    \/ \E p \in Procs : fromDocuments_Upsert(p)
    \/ \E p \in Req, text \in Texts : saveText(p, text)
    \/ \E p \in Req, query \in Queries : chat_Connect(p, query)
    \/ \E p \in Req : chat_Retrieve(p)
    \/ \E p \in Req : chat_Generate(p)

SpecPair == InitPair /\ [][NextPair]_vars

\* ------------------------------------------------------------------ claims

Done(p) == req[p].pc = "done"

InitRecords == {i \in 1..Len(points) : points[i].source = InitSource}

\* the documents of r that are in the collection
StoredOf(r) == {i \in 1..Len(r.docs) : \E j \in 1..Len(points) : points[j] = r.docs[i]}

\* C1: two concurrent invocations of ensureQdrantCollection that both find
\* the collection missing end with exactly one collection created and with
\* no error in either invocation (no service being unavailable).
C1_ConcurrentBootstrap ==
    ( /\ \A b \in Boot : Done(b) /\ ~req[b].faulted /\ ~req[b].sawExisting
      /\ req["r1"].pc = "idle" )
    => /\ created = 1
       /\ \A b \in Boot : req[b].outcome = "ok"

\* C2: no request ever finds the collection created by a bootstrap that has
\* not yet written its initialization record.
C2_NoPartialObserved == \A r \in Req : req[r].observed # "partial"

C4_ChatOnEmptyIndex ==
    \A r \in Req :
        ( /\ req[r].kind = "chat"
          /\ Done(r)
          /\ Truthy(req[r].input)
          /\ ~req[r].faulted
          /\ \A i \in 1..Len(points) : points[i].by \notin Req )
        => req[r].resp.status = 200 /\ req[r].retrieved = << >>

\* C5: every chunk an ingestion stored has non-blank content, and an
\* ingestion that extracted no non-blank content was rejected with a user
\* error and stored nothing.
C5_StoredContentNonBlank ==
    /\ \A i \in 1..Len(points) :
         points[i].by \in Req => ~IsBlank(points[i].pageContent)
    /\ \A r \in Req :
         ( /\ req[r].kind \in Ingestions
           /\ Done(r)
           /\ \A i \in 1..Len(req[r].docs) : IsBlank(req[r].docs[i].pageContent)
           /\ req[r].resp.status # 500 )
         => req[r].resp.status = 400 /\ req[r].wrote = 0

StoreStepErrors ==
    {"Failed to save text", "Failed to store documents in vector database",
     "Failed to store website content in vector database"}

\* C6: an ingestion is confirmed (success response, success notification)
\* only when all its chunks are in the collection; when its store write
\* failed it is answered with the endpoint's store-step error, the UI shows
\* an error, and nothing of it is stored.
C6_SuccessOnlyAfterWrite ==
    \A r \in Req :
        (req[r].kind \in Ingestions /\ Done(r)) =>
            LET n == Notification(req[r].kind, req[r].resp)
            IN  /\ (req[r].resp.status = 200 \/ n.severity = "success")
                   => /\ req[r].resp.status = 200
                      /\ req[r].failedAt = "none"
                      /\ req[r].wrote = Len(req[r].docs)
                      /\ StoredOf(req[r]) = 1..Len(req[r].docs)
                /\ req[r].failedAt = "upsert"
                   => /\ req[r].resp.status = 500
                      /\ req[r].resp.error \in StoreStepErrors
                      /\ n.severity = "error"
                      /\ StoredOf(req[r]) = {}

\* the store write of an ingestion has failed and the request is answered
C6_Witness ==
    \E r \in Req :
        /\ req[r].kind \in Ingestions
        /\ Done(r)
        /\ req[r].failedAt = "upsert"
        /\ req[r].resp.status = 500

\* C7: when the store write of a multi-chunk ingestion fails, the response
\* lists the chunk indices that failed, and exactly the other chunks are in
\* the collection.
C7_PerChunkReport ==
    \A r \in Req :
        ( /\ req[r].kind \in {"upload-document", "process-website"}
          /\ Done(r)
          /\ Len(req[r].docs) >= 2
          /\ req[r].failedAt = "upsert" )
        => /\ "failed" \in DOMAIN req[r].resp
           /\ req[r].resp.failed = (1..Len(req[r].docs)) \ StoredOf(req[r])

StoreSites == {"connect", "check", "create", "upsert", "search"}

\* C8: within one request no call to the vector store is attempted more than
\* twice, no call to the embedding service or the generator more than once,
\* and a request in which a call failed is answered with an error.
C8_BoundedRetry ==
    \A r \in Req :
        /\ \A c \in StoreSites : req[r].calls[c] <= 2
        /\ req[r].calls["embed"] <= 1
        /\ req[r].calls["generate"] <= 1
        /\ req[r].failedAt # "none"
           => Done(r) /\ req[r].resp.status = 500

\* a chat request whose search found the store unavailable
C8_Witness ==
    \E r \in Req :
        /\ req[r].kind = "chat"
        /\ req[r].failedAt = "search"
        /\ req[r].calls["search"] = 1
        /\ req[r].calls["embed"] = 1
        /\ req[r].resp.status = 500

\* the text s without its trailing whitespace
RTrim(t) ==
    LET E == {i \in 1..Len(t) : ~IsWhitespace(t[i])}
    IN  IF E = {} THEN << >> ELSE SubSeq(t, 1, MaxOf(E))

\* the draft ends in a citation tag of the form (Source: <text>) or
\* (Source: <text>, page <digits>)
EndsInTag(d) ==
    /\ d.tag.open = <<"(", "Source:">>
    /\ d.tag.space = <<" ">>
    /\ d.tag.path # << >>
    /\ d.tag.page # PageLit
    /\ d.tag.close = <<")">>

\* C9: the displayed text of an AI answer that ends in a citation tag is the
\* text before that final tag (less the whitespace that separates them),
\* whatever that text contains.
C9_OnlyFinalTagRemoved ==
    (rendered.shown /\ message.sender = "ai" /\ EndsInTag(draft))
    => rendered.displayed = RTrim(draft.body)

\* <text> is a URL by the rule of the citation contract
IsUrlText(path) ==
    Includes(path, "://") \/ (path # << >> /\ path[1] \in {"http", "https"})

\* C10: for an AI answer ending in a citation tag whose text is neither a URL
\* nor user-input, the citation box shows the last path segment of the text
\* with the page when there is one, and the displayed text is the body.
C10_FileCitation ==
    ( /\ rendered.shown
      /\ message.sender = "ai"
      /\ EndsInTag(draft)
      /\ draft.trail = << >>
      /\ ~IsUrlText(draft.tag.path)
      /\ draft.tag.path # <<"user-input">>
      /\ LastSegment(draft.tag.path) # << >> )
    => /\ rendered.box
       /\ rendered.citation =
            <<"(", "Source:", " ">> \o LastSegment(draft.tag.path)
                \o draft.tag.page \o <<")">>
       /\ rendered.displayed = RTrim(draft.body)

\* the body holds no parenthesis, so the only citation is the final tag
PlainBody(d) == ~Includes(d.body, "(")

\* C11: for an AI answer whose only citation is its final tag, the citation
\* box shows the tag's text unmodified when the text begins with a URL scheme
\* or contains "://", and otherwise shows its last path segment; the page is
\* attached in both cases.
C11_UrlClassification ==
    ( /\ rendered.shown
      /\ message.sender = "ai"
      /\ EndsInTag(draft)
      /\ draft.trail = << >>
      /\ PlainBody(draft)
      /\ draft.tag.path # <<"user-input">>
      /\ LastSegment(draft.tag.path) # << >> )
    => /\ rendered.box
       /\ rendered.citation =
            <<"(", "Source:", " ">>
                \o (IF IsUrlText(draft.tag.path) THEN draft.tag.path
                    ELSE LastSegment(draft.tag.path))
                \o draft.tag.page \o <<")">>

\* t, less its trailing whitespace, ends in a parenthesis opened by
\* "(Source:" or "(source:"
HasTrailingTag(t) ==
    LET u == RTrim(t)
    IN  \E k \in 1..(Len(u) - 2) :
            u[k] = "(" /\ u[k + 1] \in SourceCS /\ u[Len(u)] = ")"

\* C12: an AI answer that does not end in a citation tag is displayed
\* unchanged and gets no citation box.
C12_NoTagUnchanged ==
    (rendered.shown /\ message.sender = "ai" /\ ~HasTrailingTag(message.text))
    => /\ rendered.displayed = message.text
       /\ ~rendered.box

\* C13: an AI answer whose final citation tag is followed only by whitespace
\* is displayed without the tag and gets the citation box of the same answer
\* without that whitespace.
C13_TrailingWhitespace ==
    ( /\ rendered.shown
      /\ message.sender = "ai"
      /\ EndsInTag(draft)
      /\ PlainBody(draft)
      /\ draft.trail # << >>
      /\ AllWs(draft.trail, 1, Len(draft.trail)) )
    => /\ rendered.displayed = RTrim(draft.body)
       /\ rendered.box
       /\ rendered.citation = formatSourceCitation(TagText(draft.tag))

\* the chat requests whose generator call has been made
Generated == {r \in Req : req[r].kind = "chat" /\ req[r].calls["generate"] = 1}

\* C14: the generator is called with exactly one system message, built from
\* the chunks retrieved for this request, and one user message equal to the
\* request's query; two chat requests with the same query and the same
\* retrieved chunks call it with the same messages, whichever was handled
\* first.
C14_StatelessChat ==
    /\ \A r \in Generated :
         /\ Len(req[r].messages) = 2
         /\ req[r].messages[1] = SystemMessage(req[r].retrieved)
         /\ req[r].messages[2] = [role |-> "user", content |-> req[r].input]
    /\ \A r, q \in Generated :
         ( /\ req[r].input = req[q].input
           /\ Stringify(req[r].retrieved) = Stringify(req[q].retrieved) )
         => req[r].messages = req[q].messages

\* two chat requests were answered, with the same query over the same chunks
C14_Witness ==
    /\ Generated = Req
    /\ \A r \in Req : Done(r) /\ req[r].resp.status = 200
    /\ req["r1"].input = req["r2"].input
    /\ req["r1"].retrieved = req["r2"].retrieved
    /\ req["r1"].retrieved # << >>

\* C15: no step of a chat request changes the collection: its chunks (and
\* its existence) are the same after the step as before, whether the step
\* succeeded or failed.
C15_ChatLeavesIndex ==
    [][\A p \in Req :
         (req'[p] # req[p] /\ req'[p].kind = "chat")
         => (points' = points /\ collExists' = collExists)]_vars

\* a chat request was answered over a collection that holds chunks
C15_Witness ==
    \E r \in Req :
        /\ req[r].kind = "chat"
        /\ Done(r)
        /\ req[r].resp.status = 200
        /\ req[r].retrieved # << >>
        /\ points # << >>

\* the indices of the chunks that request r wrote
WrittenBy(r) == {i \in 1..Len(points) : points[i].by = r}

\* C16: every confirmed save-text has added exactly one chunk, holding the
\* submitted text with source "user-input" and no page, whatever was indexed
\* already; two confirmed save-texts of the same text leave two chunks with
\* that content.
C16_NoDeduplication ==
    /\ \A r \in Req :
         (req[r].kind = "save-text" /\ Done(r) /\ req[r].resp.status = 200)
         => /\ Cardinality(WrittenBy(r)) = 1
            /\ \A i \in WrittenBy(r) :
                 /\ points[i].pageContent = req[r].input
                 /\ points[i].source = UserInputSource
                 /\ points[i].page = 0
    /\ ( /\ \A r \in Req : /\ req[r].kind = "save-text"
                           /\ Done(r)
                           /\ req[r].resp.status = 200
         /\ req["r1"].input = req["r2"].input )
       => Cardinality({i \in 1..Len(points) :
              /\ points[i].pageContent = req["r1"].input
              /\ points[i].source = UserInputSource}) = 2

\* the same text was saved twice and both requests were confirmed
C16_Witness ==
    /\ \A r \in Req : /\ req[r].kind = "save-text"
                      /\ Done(r)
                      /\ req[r].resp.status = 200
    /\ req["r1"].input = req["r2"].input
    /\ Cardinality({i \in 1..Len(points) :
           points[i].pageContent = req["r1"].input}) = 2

\* the confirmed uploads of a file with extension .csv
CsvUploads ==
    {r \in Req : /\ req[r].kind = "upload-document"
                 /\ Done(r)
                 /\ req[r].resp.status = 200
                 /\ req[r].input.originalname = "data.csv"}

\* C17: a confirmed CSV upload has added exactly one chunk, whose content is
\* the entire file content and whose metadata marks it as "csv".
C17_CsvOneChunk ==
    \A r \in CsvUploads :
        /\ Cardinality(WrittenBy(r)) = 1
        /\ \A i \in WrittenBy(r) :
             /\ points[i].pageContent = req[r].input.content
             /\ points[i].type = "csv"
             /\ points[i].page = 0

\* a CSV file of more than one character was uploaded and confirmed
C17_Witness ==
    \E r \in CsvUploads :
        /\ req[r].input.content = SomeText
        /\ \E i \in WrittenBy(r) : points[i].pageContent = SomeText

\* file names whose extension is .pdf or .csv in any letter case
RecognizedNames == {"report.pdf", "REPORT.PDF", "data.csv"}

\* C18: an upload whose extension is neither .pdf nor .csv (in any letter
\* case) is answered 400 "Unsupported file type" and writes nothing to the
\* collection, and no other upload is answered with that error.
C18_UnsupportedKind ==
    \A r \in Req :
        (req[r].kind = "upload-document" /\ Done(r) /\ req[r].input.present)
        => IF req[r].input.originalname \in RecognizedNames
           THEN req[r].resp # Error(400, "Unsupported file type")
           ELSE /\ req[r].resp = Error(400, "Unsupported file type")
                /\ req[r].wrote = 0
                /\ WrittenBy(r) = {}
                /\ \A c \in CallSites : req[r].calls[c] = 0

\* a .txt upload was rejected while the collection holds chunks
C18_Witness ==
    \E r \in Req :
        /\ req[r].kind = "upload-document"
        /\ Done(r)
        /\ req[r].input.present
        /\ req[r].input.originalname = "notes.txt"
        /\ req[r].resp.status = 400
        /\ points # << >>

\* C19: a chat request in which retrieval or generation failed is answered
\* with a generic error that carries no internal error text, and the chat
\* panel shows a generic apology.
C19_GenericChatError ==
    \A r \in Req :
        ( /\ req[r].kind = "chat"
          /\ Done(r)
          /\ req[r].failedAt \in {"embed", "search", "generate"} )
        => /\ req[r].resp.status = 500
           /\ "details" \notin DOMAIN req[r].resp
           /\ handleSubmit_Reply(req[r].resp).isError

\* a metadata.source that is a file name, possibly with its directory
IsFileSource(src) ==
    src # << >> /\ src[Len(src)] \in RecognizedNames \cup {"notes.txt"}

\* C20: every chunk in the collection has a metadata.source that is a file
\* name, a URL or "user-input".
C20_SourceKinds ==
    \A i \in 1..Len(points) :
        \/ points[i].source = UserInputSource
        \/ IsUrlText(points[i].source)
        \/ IsFileSource(points[i].source)

\* C21: every chunk written by an upload carries as metadata.source the
\* original bare file name, without the upload prefix and without a
\* directory.
C21_BareFileName ==
    \A r \in Req :
        req[r].kind = "upload-document"
        => \A i \in WrittenBy(r) :
             points[i].source = <<req[r].input.originalname>>

\* C23: once an upload-document request that carried a file has been
\* answered, the file stored for it is gone from the uploads directory.
C23_UploadCleanedUp ==
    \A r \in Req :
        (req[r].kind = "upload-document" /\ Done(r) /\ req[r].input.present)
        => ~req[r].tmp

\* C24: an upload-document request answered with an error has none of its
\* chunks in the collection.
C24_ErrorMeansNothingStored ==
    \A r \in Req :
        (req[r].kind = "upload-document" /\ Done(r) /\ req[r].resp.status # 200)
        => WrittenBy(r) = {}

\* the steps of a request handler that wait for an external call
Awaiting(p) ==
    \/ fromDocuments_Embed(p)
    \/ fromDocuments_Check(p)
    \/ fromDocuments_Create(p)
    \/ fromDocuments_Upsert(p)
    \/ uploadDocument_Cleanup(p)
    \/ chat_Retrieve(p)
    \/ chat_Generate(p)

\* C25: a request is never answered twice, a handler that has ended has
\* answered exactly once, and a handler that has not ended has a next step
\* and has not answered yet.
C25_ExactlyOneResponse ==
    \A r \in Req :
        /\ req[r].sent <= 1
        /\ Done(r) => (req[r].sent = 1 /\ req[r].resp # NoResp)
        /\ (req[r].pc \notin {"idle", "off", "done"})
           => (req[r].sent = 0 /\ ENABLED Awaiting(r))

\* an upload whose store write failed has been answered, once
C25_Witness ==
    \E r \in Req :
        /\ req[r].kind = "upload-document"
        /\ Done(r)
        /\ req[r].failedAt = "upsert"
        /\ req[r].sent = 1

\* the request carries no text, no file, no url, a url that does not parse,
\* or no query
InvalidInput(r) ==
    CASE r.kind = "save-text" -> r.input = EmptyText
      [] r.kind = "upload-document" -> ~r.input.present
      [] r.kind = "process-website" -> r.input.url \in {NoUrl, BadUrl}
      [] r.kind = "chat" -> r.input = EmptyText
      [] OTHER -> FALSE

\* C30: a request with missing or malformed input is answered 400 without a
\* call to a loader, the embedding service, the vector store or the
\* generator, and writes nothing to the collection.
C30_RejectedBeforeWork ==
    \A r \in Req :
        (req[r].pc # "idle" /\ req[r].pc # "off" /\ InvalidInput(req[r]))
        => /\ Done(r)
           /\ req[r].resp.status = 400
           /\ \A c \in CallSites : req[r].calls[c] = 0
           /\ req[r].docs = << >>
           /\ req[r].wrote = 0
           /\ WrittenBy(r) = {}

\* a request without input was rejected while the collection holds chunks
C30_Witness ==
    \E r \in Req :
        /\ Done(r)
        /\ InvalidInput(req[r])
        /\ req[r].resp.status = 400
        /\ points # << >>

\* C22: when the transcription request for a recording of sufficient length
\* has been answered by the server of api/index.js, the transcription is in
\* the chat input; and every chat request in flight carries the text of the
\* user message added at its submission.
C22_TranscriptionToInput ==
    /\ ui.lastTr.backend = "api/index.js" => ui.lastTr.input = Transcript
    /\ \A i \in 1..Len(ui.chatInFlight) :
         \E j \in 1..Len(ui.messages) :
             /\ ui.messages[j].sender = "user"
             /\ ui.messages[j].text = ui.chatInFlight[i].query

\* C26: for an AI message the citation box is shown exactly when the
\* displayed text differs from the message text, that is, when a citation
\* tag was removed from it.
C26_BoxIffTagRemoved ==
    (rendered.shown /\ message.sender = "ai")
    => (rendered.box <=> rendered.displayed # message.text)

\* C27: at most one chat request is in flight; the message list alternates
\* user message, AI message, each submission being followed by exactly one
\* AI message before the next one; and isTyping is false when no request is
\* in flight.
C27_OneChatInFlight ==
    /\ Len(ui.chatInFlight) <= 1
    /\ \A i \in 1..Len(ui.messages) :
         ui.messages[i].sender = (IF i % 2 = 1 THEN "user" ELSE "ai")
    /\ Len(ui.messages) = 2 * ui.submits - Len(ui.chatInFlight)
    /\ ui.chatInFlight = << >> => ~ui.isTyping

\* two submissions were answered, one of them with the error message
C27_Witness ==
    /\ ui.submits = 2
    /\ Len(ui.messages) = 4
    /\ ui.chatInFlight = << >>
    /\ ui.messages[2].isError
    /\ ~ui.messages[4].isError

\* C28: a transcription request is sent for the recordings of 1000 bytes or
\* more and for no other, isTranscribing is true only while such a request
\* is in flight, and whenever isTranscribing is true it becomes false again.
C28_TranscribingEnds ==
    /\ [](/\ ui.trSent = ui.stopped["big"]
          /\ ui.isTranscribing => ui.trInFlight > 0)
    /\ (ui.isTranscribing ~> ~ui.isTranscribing)

\* recordings were stopped with no data, with a short blob and with a long
\* one whose transcription failed, and isTranscribing is false again
C28_Witness ==
    /\ ui.stopped["big"] >= 1
    /\ ui.stopped["small"] + ui.stopped["none"] >= 1
    /\ ui.lastTr.resp \in {"error", "not found"}
    /\ ~ui.isTranscribing

\* C29: isLoading is true exactly while an ingestion request started from
\* the document input is in flight.
C29_LoadingTracksInFlight ==
    ui.isLoading <=> ui.ingestInFlight # << >>

=============================================================================
